---- MODULE Spec2Model ----
(***************************************************************************)
(* Model of DebankClient (src/debank_client.py, src/shadow_nav_board.py):  *)
(* construction, the DNS pre-check, one _get call executed through a       *)
(* requests Session whose adapter carries                                  *)
(*   Retry(total=max_retries, backoff_factor=backoff,                      *)
(*         status_forcelist=[429,500,502,503,504], raise_on_status=False)  *)
(* and the classification of the final response.                           *)
(*                                                                         *)
(* Durations are in deciseconds (0.8 s = 8).                               *)
(***************************************************************************)
EXTENDS Integers, Sequences, FiniteSets, TLC

VARIABLES
    ctor,     \* arguments (api_key, DEBANK_API_KEY) of the constructor call, while it is the last operation
    client,   \* the constructed client's configuration, NoClient if none exists
    pc,       \* "new" (no client), "idle", "send" (inside session.get), "done"
    path,     \* path of the current _get call
    total,    \* Retry.total left for the current session.get
    history,  \* Retry.history of the current session.get (status, 0 = error)
    trace,    \* network events of the current call: lookups, attempts, sleeps
    r,        \* the response session.get returned, NoResponse if none
    result    \* what the last operation returned or raised

\* the endpoint methods and summarize_wallet, over _get as a whole
VARIABLES
    apc,      \* "idle", or the stage of summarize_wallet: "total", "chains", "positions", "done"
    ainp,     \* the method invoked and its arguments
    calls,    \* the _get calls (path, params, outcome) the invocation has issued, in order
    got,      \* payloads summarize_wallet has fetched so far
    ret       \* what the invocation returned or raised

\* the base URL kept by the constructor
VARIABLES
    url_in,   \* base_url argument of the constructor
    base_url  \* self.base_url

\* the board's session state and its persisted store (shadow_nav_board.py)
VARIABLES
    wallets,     \* st.session_state.wallets
    comments,    \* st.session_state.comments: addr -> log
    active_idx,  \* st.session_state.active_idx: None or an index
    store,       \* the JSON document at STORE_PATH, if the file exists
    last         \* the handler that ran last, with the index it was given

\* the Overview tab of the two demo apps (debank_client.py, shadow_nav_demo.py)
VARIABLES
    oin,         \* the app that runs and the addresses entered
    opc,         \* "idle", "loop", "shown" or "crashed"
    summaries,   \* the summarize_wallet calls made so far, with their outcomes
    rows         \* the rows collected for st.dataframe

clientVars == <<ctor, client, pc, path, total, history, trace, r, result>>

apiVars == <<apc, ainp, calls, got, ret>>

urlVars == <<url_in, base_url>>

boardVars == <<wallets, comments, active_idx, store, last>>

overviewVars == <<oin, opc, summaries, rows>>

vars == <<ctor, client, pc, path, total, history, trace, r, result, apc, ainp, calls, got, ret, url_in, base_url, wallets, comments, active_idx, store, last, oin, opc, summaries, rows>>

(* ---------------------------- bounds ----------------------------------- *)
\* largest max_retries a client is constructed with
MaxRetries == 3

(* ------------------------ values and inputs ---------------------------- *)
\* Python None for an absent argument / environment variable
NoneVal == "<None>"

ApiKeyArgs == {NoneVal, "", "key"}
EnvKeys == {NoneVal, "", "envkey"}

\* backoff= values tried: 0.8 s (the default) and 50 s (reaches the cap)
Backoffs == {8, 500}

Paths == {"/v1/user/total_balance", "/v1/user/used_chain_list"}

\* mutant: tests `is not None` instead of truthiness
Truthy_NotNone(s) == s # NoneVal

\* Python truthiness of an Optional[str]
Truthy(s) == s # NoneVal /\ s # ""

\* `a or b`
PyOr(a, b) == IF Truthy(a) THEN a ELSE b

(* JSON values, as an arena of nodes:                                      *)
(*   0 null            1 []               2 [1]          3 {"usd_value":1} *)
(*   4 {"data": null}  5 {"data": []}     6 {"data": {"usd_value":1}}      *)
(*   7 {"data": {"data": {"usd_value":1}}}                                 *)
JsonIds == 0..7

IsDict(j) == j \in {3, 4, 5, 6, 7}

JsonKeys(j) == IF j = 3 THEN {"usd_value"} ELSE IF j \in {4, 5, 6, 7} THEN {"data"} ELSE {}

\* value under the key "data" of a dict that has it
DataOf(j) == CASE j = 4 -> 0 [] j = 5 -> 1 [] j = 6 -> 3 [] j = 7 -> 6 [] OTHER -> -1

NoJson == 0 - 1

\* a response body: parseable JSON (json # NoJson) or raw text of length len
JsonBodies == {[json |-> j, len |-> 0] : j \in JsonIds}
TextBodies == {[json |-> NoJson, len |-> n] : n \in {10, 500, 501}}
Bodies == JsonBodies \cup TextBodies

\* bodies tried on responses of a non-2xx status
ErrorBodies == {[json |-> 3, len |-> 0]} \cup TextBodies

\* a transport attempt ends in a transport-level failure (status 0) or in a
\* response with a status and possibly a Retry-After header (ra, -1 = absent)
TransportError == [status |-> 0, ra |-> -1]

Responses == {[status |-> s, ra |-> -1] : s \in {200, 404, 413, 429, 500, 502, 503, 504}} \cup {[status |-> 413, ra |-> 50]}

Outcomes == {TransportError} \cup Responses

(* ------------------------ results of an operation ---------------------- *)
NoResult == [cls |-> "none", msg |-> "", status |-> 0, path |-> "", body |-> [json |-> NoJson, len |-> 0], value |-> NoJson]

Payload(j) == [NoResult EXCEPT !.cls = "payload", !.value = j]

Raise(cls, msg) == [NoResult EXCEPT !.cls = cls, !.msg = msg]

NoClient == [api_key |-> NoneVal, max_retries |-> 0, backoff |-> 0]

NoResponse == [status |-> 0, body |-> [json |-> NoJson, len |-> 0]]

NoCtor == [api_key |-> NoneVal, env_key |-> NoneVal, called |-> FALSE]

(* --------------------------- construction ------------------------------ *)
\* self.api_key = api_key or os.getenv("DEBANK_API_KEY")
ResolveApiKey(api_key, env_key) == PyOr(api_key, env_key)

\* DebankClient.__init__: raises ValueError when no key resolves, before the
\* session is built; otherwise the client exists with its Retry configuration
Construct ==
    /\ pc = "new"
    /\ \E api_key \in ApiKeyArgs, env_key \in EnvKeys, max_retries \in 0..MaxRetries, backoff \in Backoffs :
         LET key == ResolveApiKey(api_key, env_key) IN
         /\ IF ~Truthy(key)
            THEN /\ result' = Raise("ValueError", "missing_key")
                 /\ client' = NoClient
                 /\ pc' = "new"
            ELSE /\ result' = NoResult
                 /\ client' = [api_key |-> key, max_retries |-> max_retries, backoff |-> backoff]
                 /\ pc' = "idle"
         /\ ctor' = [api_key |-> api_key, env_key |-> env_key, called |-> TRUE]
    /\ trace' = <<>>
    /\ history' = <<>>
    /\ total' = 0
    /\ path' = ""
    /\ r' = NoResponse

(* ------------------------- urllib3 Retry policy ------------------------ *)
\* mutant: 429 left out of the forcelist
status_forcelist_no429 == {500, 502, 503, 504}

\* status_forcelist=[429, 500, 502, 503, 504]
status_forcelist == {429, 500, 502, 503, 504}

\* statuses on which urllib3 honours a Retry-After header by default
RETRY_AFTER_STATUS_CODES == {413, 429, 503}

\* Retry.is_retry for a GET (allowed_methods=["GET"]): a status of the
\* forcelist, or a Retry-After header on 413/429/503 while total is non-zero
IsRetry(status, ra, tot) == status \in status_forcelist \/ (tot # 0 /\ ra >= 0 /\ status \in RETRY_AFTER_STATUS_CODES)

\* mutant: total counts attempts, not retries
RetryTotal_OffByOne(max_retries) == max_retries - 1

\* Retry(total=max_retries): the retries allowed after the first attempt
RetryTotal(max_retries) == max_retries

\* mutant: exhausted as soon as the count reaches zero
IsExhausted_AtZero(tot) == tot <= 0

\* Retry.is_exhausted with only total set: the zero count is filtered out
IsExhausted(tot) == tot < 0

Min(a, b) == IF a < b THEN a ELSE b

RECURSIVE Pow2(_)
Pow2(n) == IF n <= 0 THEN 1 ELSE 2 * Pow2(n - 1)

\* mutant: linear backoff, backoff_factor * errors
GetBackoffTime_Linear(backoff, errors) == Min(120 * 10, backoff * errors)

\* Retry.get_backoff_time: nothing after the first consecutive error, then
\* backoff_factor * 2^(errors-1), capped at 120 s
GetBackoffTime(backoff, errors) == IF errors <= 1 THEN 0 ELSE Min(120 * 10, backoff * Pow2(errors - 1))

\* Retry.sleep: a positive Retry-After of the response wins over the backoff
SleepTime(backoff, errors, ra) == IF ra > 0 THEN ra ELSE GetBackoffTime(backoff, errors)

(* ----------------------------- events ---------------------------------- *)
DnsEvent(ok) == [ev |-> "dns", v |-> IF ok THEN 1 ELSE 0, ra |-> 0 - 1]
AttemptEvent(o) == [ev |-> "attempt", v |-> o.status, ra |-> o.ra]
SleepEvent(d) == [ev |-> "sleep", v |-> d, ra |-> 0 - 1]

\* time.sleep is only called for a positive duration
Slept(d) == IF d > 0 THEN <<SleepEvent(d)>> ELSE <<>>

(* ------------------------------ _get ----------------------------------- *)
\* mutant: the diagnosis is computed but not acted on
BeginGet_IgnoreDns ==
    /\ pc \in {"idle", "done"}
    /\ \E p \in Paths, dns_ok \in BOOLEAN :
         /\ path' = p
         /\ trace' = <<DnsEvent(dns_ok)>>
    /\ pc' = "send"
    /\ result' = NoResult
    /\ total' = RetryTotal(client.max_retries)
    /\ history' = <<>>
    /\ r' = NoResponse
    /\ ctor' = NoCtor
    /\ UNCHANGED client

\* mutant: no pre-check at all
BeginGet_NoLookup ==
    /\ pc \in {"idle", "done"}
    /\ \E p \in Paths : path' = p
    /\ trace' = <<>>
    /\ pc' = "send"
    /\ result' = NoResult
    /\ total' = RetryTotal(client.max_retries)
    /\ history' = <<>>
    /\ r' = NoResponse
    /\ ctor' = NoCtor
    /\ UNCHANGED client

\* _get up to the first transport attempt: the DNS pre-check of the base
\* URL host; a failed lookup raises DebankError at once
BeginGet ==
    /\ pc \in {"idle", "done"}
    /\ \E p \in Paths, dns_ok \in BOOLEAN :
         /\ path' = p
         /\ trace' = <<DnsEvent(dns_ok)>>
         /\ IF dns_ok
            THEN /\ pc' = "send"
                 /\ result' = NoResult
            ELSE /\ pc' = "done"
                 /\ result' = Raise("DebankError", "dns")
    /\ total' = RetryTotal(client.max_retries)
    /\ history' = <<>>
    /\ r' = NoResponse
    /\ ctor' = NoCtor
    /\ UNCHANGED client

\* mutant: `data.get("data") or data`, a falsy payload is not unwrapped
Normalize_Truthy(j) == IF IsDict(j) /\ "data" \in JsonKeys(j) /\ DataOf(j) \notin {0, 1} THEN DataOf(j) ELSE j

\* the normalisation of a parsed 2xx body
Normalize(j) == IF IsDict(j) /\ "data" \in JsonKeys(j) THEN DataOf(j) ELSE j

\* mutant: the raw text is not cut
BodyExcerpt_NoTruncate(body) == body

\* the error body of a non-2xx response: r.json() if it parses, else r.text[:500]
BodyExcerpt(body) == IF body.json # NoJson THEN body ELSE [json |-> NoJson, len |-> Min(body.len, 500)]

\* _get after session.get returned response r
Classify(p, status, body) ==
    IF status = 429 THEN Raise("DebankError", "rate_limit")
    ELSE IF status >= 400 /\ status < 600
    THEN [Raise("DebankError", "http") EXCEPT !.status = status, !.path = p, !.body = BodyExcerpt(body)]
    ELSE IF body.json = NoJson THEN Raise("JSONDecodeError", "")
    ELSE Payload(Normalize(body.json))

\* session.get raised a RequestException (retries exhausted on a transport error)
NetworkError == Raise("DebankError", "network")

\* one transport attempt of session.get and what urlopen does with its outcome
Attempt ==
    /\ pc = "send"
    /\ \E o \in Outcomes :
         LET newTotal == total - 1
             newHistory == Append(history, o.status)
             retried == o = TransportError \/ IsRetry(o.status, o.ra, total)
         IN
         IF retried /\ ~IsExhausted(newTotal)
         THEN /\ total' = newTotal
              /\ history' = newHistory
              /\ trace' = trace \o <<AttemptEvent(o)>> \o Slept(SleepTime(client.backoff, Len(newHistory), o.ra))
              /\ pc' = "send"
              /\ result' = NoResult
              /\ r' = NoResponse
         ELSE /\ total' = IF retried THEN newTotal ELSE total
              /\ history' = IF retried THEN newHistory ELSE history
              /\ trace' = Append(trace, AttemptEvent(o))
              /\ pc' = "done"
              /\ IF o = TransportError
                 THEN /\ result' = NetworkError
                      /\ r' = NoResponse
                 ELSE \E body \in (IF o.status < 400 THEN Bodies ELSE ErrorBodies) :
                        /\ r' = [status |-> o.status, body |-> body]
                        /\ result' = Classify(path, o.status, body)
    /\ UNCHANGED <<ctor, client, path>>

\* the client object is dropped (a rerun of the script builds a new one)
Discard ==
    /\ pc \in {"idle", "done"}
    /\ pc' = "new"
    /\ client' = NoClient
    /\ result' = NoResult
    /\ trace' = <<>>
    /\ history' = <<>>
    /\ total' = 0
    /\ path' = ""
    /\ r' = NoResponse
    /\ ctor' = NoCtor


(* ============ endpoint methods and summarize_wallet ==================== *)
\* largest number of characters of a base_url argument
MaxUrlLen == 4

\* Python values of a JSON number field: None (null or missing) or an int
PyNone == [t |-> "none", v |-> 0]
PyInt(n) == [t |-> "int", v |-> n]

\* truthiness of None / int
PyTruthy(x) == x.t = "int" /\ x.v # 0

\* `a or b` on such values
PyValOr(a, b) == IF PyTruthy(a) THEN a ELSE b

EmptyDict == [k \in {} |-> PyNone]

\* dict.get(k)
DictGet(d, k) == IF k \in DOMAIN d THEN d[k] ELSE PyNone

Addrs == {"0xabc", "0xdef"}
ChainIds == {NoneVal, "", "eth"}
StartTimes == {PyNone, PyInt(0), PyInt(1700)}
PageCounts == {20, 50}

\* total-balance dicts: usd_value and net_usd_value present or not
TotalDicts ==
    {EmptyDict}
    \cup {[k \in {"usd_value"} |-> PyInt(u)] : u \in {0, 100}}
    \cup {[k \in {"usd_value", "net_usd_value"} |-> IF k = "usd_value" THEN PyInt(100) ELSE PyInt(n)] : n \in {0, 90}}
    \cup {[k \in {"net_usd_value"} |-> PyInt(90)]}

\* a normalized payload: a dict (with content d), or a list / null (opaque id)
DictPayload(d) == [kind |-> "dict", d |-> d, id |-> 0]
ListPayload(i) == [kind |-> "list", d |-> EmptyDict, id |-> i]
NullPayload == [kind |-> "null", d |-> EmptyDict, id |-> 0]

\* payloads tried for each call of summarize_wallet
PayloadsOf(stage) ==
    IF stage = "total" THEN {DictPayload(d) : d \in TotalDicts} \cup {NullPayload}
    ELSE {ListPayload(1), ListPayload(2)}

\* the ways _get raises
GetErrors == {"DebankError: dns", "DebankError: network", "DebankError: rate_limit", "DebankError: http", "JSONDecodeError"}

\* what one _get call comes back with
GetOutcomes(stage) ==
    {[ok |-> TRUE, err |-> "", val |-> p] : p \in PayloadsOf(stage)}
    \cup {[ok |-> FALSE, err |-> e, val |-> NullPayload] : e \in GetErrors}

NoInput == [method |-> "", addr |-> "", chain_id |-> NoneVal, is_all |-> TRUE, start_time |-> PyNone, page_count |-> 50]

NoGot == [total |-> NullPayload, chains |-> NullPayload, positions |-> NullPayload]

NoRet == [cls |-> "none", err |-> "", value |-> NullPayload, address |-> "", total_usd |-> PyNone, net_usd |-> PyNone, chains |-> NullPayload, positions |-> NullPayload]

RetError(e) == [NoRet EXCEPT !.cls = "error", !.err = e]

RetPayload(p) == [NoRet EXCEPT !.cls = "payload", !.value = p]

\* str(b) of a bool, as its characters
PyStr(b) == IF b THEN <<"T", "r", "u", "e">> ELSE <<"F", "a", "l", "s", "e">>

LowerChar(c) == CASE c = "T" -> "t" [] c = "F" -> "f" [] OTHER -> c

\* mutant: the string is not lowercased
Lower_Identity(str) == str

\* str.lower()
Lower(str) == [i \in DOMAIN str |-> LowerChar(str[i])]

\* get_total_balance
ReqTotalBalance(addr) == [path |-> "/v1/user/total_balance", params |-> [id |-> addr]]

\* get_used_chains
ReqUsedChains(addr) == [path |-> "/v1/user/used_chain_list", params |-> [id |-> addr]]

\* get_token_list
ReqTokenList(addr, chain_id, is_all) == [path |-> "/v1/user/token_list", params |-> [id |-> addr, chain_id |-> chain_id, is_all |-> Lower(PyStr(is_all))]]

\* get_all_token_list
ReqAllTokenList(addr, is_all) == [path |-> "/v1/user/all_token_list", params |-> [id |-> addr, is_all |-> Lower(PyStr(is_all))]]

\* mutant: the chain is never sent
ReqComplexProtocolList_AlwaysAll(addr, chain_id) == [path |-> "/v1/user/all_complex_protocol_list", params |-> [id |-> addr]]

\* get_complex_protocol_list: `if chain_id:`
ReqComplexProtocolList(addr, chain_id) ==
    IF Truthy(chain_id)
    THEN [path |-> "/v1/user/complex_protocol_list", params |-> [id |-> addr, chain_id |-> chain_id]]
    ELSE [path |-> "/v1/user/all_complex_protocol_list", params |-> [id |-> addr]]

\* `if start_time: params["start_time"] = start_time`
WithStartTime(params, start_time) == IF PyTruthy(start_time) THEN params @@ [start_time |-> start_time.v] ELSE params

\* get_all_history_list
ReqAllHistoryList(addr, start_time, page_count) == [path |-> "/v1/user/all_history_list", params |-> WithStartTime([id |-> addr, page_count |-> page_count], start_time)]

\* get_history_list
ReqHistoryList(addr, chain_id, start_time, page_count) == [path |-> "/v1/user/history_list", params |-> WithStartTime([id |-> addr, chain_id |-> chain_id, page_count |-> page_count], start_time)]

\* the invocations tried, with the arguments each method does not take at their defaults
Invocations ==
    {[NoInput EXCEPT !.method = m, !.addr = a] : m \in {"get_total_balance", "get_used_chains"}, a \in Addrs}
    \cup {[NoInput EXCEPT !.method = "get_complex_protocol_list", !.addr = a, !.chain_id = c] : a \in Addrs, c \in ChainIds}
    \cup {[NoInput EXCEPT !.method = "get_token_list", !.addr = a, !.chain_id = "eth", !.is_all = b] : a \in Addrs, b \in BOOLEAN}
    \cup {[NoInput EXCEPT !.method = "get_all_token_list", !.addr = a, !.is_all = b] : a \in Addrs, b \in BOOLEAN}
    \cup {[NoInput EXCEPT !.method = "get_all_history_list", !.addr = a, !.start_time = t, !.page_count = n] : a \in Addrs, t \in StartTimes, n \in PageCounts}
    \cup {[NoInput EXCEPT !.method = "get_history_list", !.addr = a, !.chain_id = "eth", !.start_time = t, !.page_count = n] : a \in Addrs, t \in StartTimes, n \in PageCounts}

\* the _get call an endpoint method makes
Request(inp) ==
    CASE inp.method = "get_total_balance" -> ReqTotalBalance(inp.addr)
      [] inp.method = "get_used_chains" -> ReqUsedChains(inp.addr)
      [] inp.method = "get_complex_protocol_list" -> ReqComplexProtocolList(inp.addr, inp.chain_id)
      [] inp.method = "get_token_list" -> ReqTokenList(inp.addr, inp.chain_id, inp.is_all)
      [] inp.method = "get_all_token_list" -> ReqAllTokenList(inp.addr, inp.is_all)
      [] inp.method = "get_all_history_list" -> ReqAllHistoryList(inp.addr, inp.start_time, inp.page_count)
      [] inp.method = "get_history_list" -> ReqHistoryList(inp.addr, inp.chain_id, inp.start_time, inp.page_count)

\* a _get call as issued, with how it came back
Issued(req, o) == [path |-> req.path, params |-> req.params, ok |-> o.ok, err |-> o.err]

\* an endpoint method: one _get, whose payload or error is passed on
CallEndpoint ==
    /\ apc \in {"idle", "done"}
    /\ \E inp \in Invocations, o \in GetOutcomes("list") :
         /\ ainp' = inp
         /\ calls' = <<Issued(Request(inp), o)>>
         /\ ret' = IF o.ok THEN RetPayload(o.val) ELSE RetError(o.err)
    /\ apc' = "done"
    /\ got' = NoGot


\* summarize_wallet is entered
SummarizeBegin ==
    /\ apc \in {"idle", "done"}
    /\ \E a \in Addrs : ainp' = [NoInput EXCEPT !.method = "summarize_wallet", !.addr = a]
    /\ apc' = "total"
    /\ calls' = <<>>
    /\ got' = NoGot
    /\ ret' = NoRet


\* the three calls of summarize_wallet, in the order of the code
StageRequest(stage, addr) ==
    CASE stage = "total" -> ReqTotalBalance(addr)
      [] stage = "chains" -> ReqUsedChains(addr)
      [] stage = "positions" -> ReqComplexProtocolList(addr, NoneVal)

NextStage(stage) == CASE stage = "total" -> "chains" [] stage = "chains" -> "positions" [] stage = "positions" -> "done"

\* the dict summarize_wallet returns; total.get raises on a payload that is no dict
Compose(addr, g) ==
    IF g.total.kind # "dict" THEN RetError("AttributeError")
    ELSE [NoRet EXCEPT !.cls = "record",
                       !.address = addr,
                       !.total_usd = DictGet(g.total.d, "usd_value"),
                       !.net_usd = PyValOr(DictGet(g.total.d, "net_usd_value"), DictGet(g.total.d, "usd_value")),
                       !.chains = g.chains,
                       !.positions = g.positions]

\* mutant: an error of a call is swallowed and the call's payload left empty
SummarizeStep_Swallow ==
    /\ apc \in {"total", "chains", "positions"}
    /\ \E o \in GetOutcomes(apc) :
         LET g == [got EXCEPT ![apc] = o.val] IN
         /\ calls' = Append(calls, Issued(StageRequest(apc, ainp.addr), o))
         /\ got' = g
         /\ apc' = NextStage(apc)
         /\ ret' = IF apc = "positions" THEN Compose(ainp.addr, g) ELSE NoRet
    /\ UNCHANGED ainp

\* one call of summarize_wallet and what follows it: an error ends the
\* method, the third payload lets it compose its record
SummarizeStep ==
    /\ apc \in {"total", "chains", "positions"}
    /\ \E o \in GetOutcomes(apc) :
         LET g == [got EXCEPT ![apc] = o.val] IN
         /\ calls' = Append(calls, Issued(StageRequest(apc, ainp.addr), o))
         /\ IF ~o.ok
            THEN /\ apc' = "done"
                 /\ ret' = RetError(o.err)
                 /\ got' = got
            ELSE /\ got' = g
                 /\ apc' = NextStage(apc)
                 /\ ret' = IF apc = "positions" THEN Compose(ainp.addr, g) ELSE NoRet
    /\ UNCHANGED ainp

\* DEFAULT_BASE_URL, abbreviated to one character that is no slash
DefaultBaseUrl == <<"d">>

\* base_url arguments tried: the strings (the empty one stands for None too) over {h, :, /} up to MaxUrlLen
RECURSIVE UrlsOfLen(_)
UrlsOfLen(n) == IF n = 0 THEN {<<>>} ELSE {Append(u, c) : u \in UrlsOfLen(n - 1), c \in {"h", ":", "/"}}

UrlArgs == UNION {UrlsOfLen(n) : n \in 0..MaxUrlLen}

\* mutant: removesuffix("/"), one slash only
RStripSlash_One(u) == IF u # <<>> /\ u[Len(u)] = "/" THEN SubSeq(u, 1, Len(u) - 1) ELSE u

\* str.rstrip("/")
RECURSIVE RStripSlash(_)
RStripSlash(u) == IF u # <<>> /\ u[Len(u)] = "/" THEN RStripSlash(SubSeq(u, 1, Len(u) - 1)) ELSE u

\* (base_url or DEFAULT_BASE_URL).rstrip("/")
NormalizeBaseUrl(u) == RStripSlash(IF u = <<>> THEN DefaultBaseUrl ELSE u)

\* the constructor stores the base URL
SetBaseUrl ==
    \E u \in UrlArgs :
        /\ url_in' = u
        /\ base_url' = NormalizeBaseUrl(u)

ApiInit ==
    /\ apc = "idle"
    /\ ainp = NoInput
    /\ calls = <<>>
    /\ got = NoGot
    /\ ret = NoRet

UrlInit ==
    /\ url_in = DefaultBaseUrl
    /\ base_url = DefaultBaseUrl


(* ================== the board: session state and store ================= *)
\* largest number of lines of the Wallets text area
MaxLines == 3

\* largest number of comment entries, all logs together
MaxLog == 2

\* a line of the text area, stripped and split at its commas; <<>> is a blank line
Lines == {<<>>, <<"0xa">>, <<"Lbl", "0xb">>}

RECURSIVE TextsOfLen(_)
TextsOfLen(n) == IF n = 0 THEN {<<>>} ELSE {Append(t, l) : t \in TextsOfLen(n - 1), l \in Lines}

WalletTexts == UNION {TextsOfLen(n) : n \in 0..MaxLines}

\* a label typed by the user, or the automatic f"Wallet {i}"
GivenLabel(text) == [text |-> text, n |-> 0]
AutoLabel(i) == [text |-> "Wallet", n |-> i]

\* the wallet parse_wallets makes of the parts of a non-blank line, the i-th such line
ParseLine(parts, i) ==
    LET cl == IF Len(parts) >= 3 THEN parts[1] ELSE ""
        lb == IF Len(parts) >= 3 THEN parts[2] ELSE IF Len(parts) = 2 THEN parts[1] ELSE ""
        ad == IF Len(parts) >= 3 THEN parts[3] ELSE IF Len(parts) = 2 THEN parts[2] ELSE parts[1]
    IN [client |-> IF cl = "" THEN "Unassigned" ELSE cl,
        label |-> IF lb = "" THEN AutoLabel(i) ELSE GivenLabel(lb),
        addr |-> ad]

RECURSIVE ParseFrom(_, _)
ParseFrom(lines, i) ==
    IF lines = <<>> THEN <<>>
    ELSE IF Head(lines) = <<>> THEN ParseFrom(Tail(lines), i)
    ELSE <<ParseLine(Head(lines), i)>> \o ParseFrom(Tail(lines), i + 1)

\* parse_wallets
parse_wallets(text) == ParseFrom(text, 1)

\* comment inputs, as characters; str.strip() drops the blanks at both ends
CommentInputs == {<<>>, <<" ">>, <<" ", "n", " ">>}

RECURSIVE LStrip(_)
LStrip(t) == IF t # <<>> /\ Head(t) = " " THEN LStrip(Tail(t)) ELSE t

RECURSIVE RStrip(_)
RStrip(t) == IF t # <<>> /\ t[Len(t)] = " " THEN RStrip(SubSeq(t, 1, Len(t) - 1)) ELSE t

Strip(t) == RStrip(LStrip(t))

NoComments == [a \in {} |-> <<>>]

\* comments.get(addr, [])
LogOf(c, addr) == IF addr \in DOMAIN c THEN c[addr] ELSE <<>>

\* the number of entries of the logs of the addresses S
RECURSIVE Logged(_, _)
Logged(c, S) == IF S = {} THEN 0 ELSE LET a == CHOOSE x \in S : TRUE IN Len(c[a]) + Logged(c, S \ {a})

\* comments.setdefault(addr, []).append(entry)
AppendComment(c, addr, entry) == [a \in DOMAIN c \cup {addr} |-> IF a = addr THEN Append(LogOf(c, addr), entry) ELSE c[a]]

\* list.pop(idx), idx counted from 0
Pop(ws, idx) == SubSeq(ws, 1, idx) \o SubSeq(ws, idx + 2, Len(ws))

\* the wallet at a Python index
At(ws, idx) == ws[idx + 1]

\* active_idx as JSON: null or a number
JsonOfIdx(a) == [null |-> a.t = "none", num |-> a.v]
IdxOfJson(j) == IF j.null THEN PyNone ELSE PyInt(j.num)

NoFile == [exists |-> FALSE, wallets |-> <<>>, comments |-> NoComments, active_idx |-> JsonOfIdx(PyNone)]

\* save_store: the document json.dump writes (the write succeeds)
save_store(w, c, a) == [exists |-> TRUE, wallets |-> w, comments |-> c, active_idx |-> JsonOfIdx(a)]

\* load_store: the document read back, or the defaults when there is no file
load_store(doc) ==
    IF doc.exists
    THEN [wallets |-> doc.wallets, comments |-> doc.comments, active_idx |-> IdxOfJson(doc.active_idx)]
    ELSE [wallets |-> <<>>, comments |-> NoComments, active_idx |-> PyNone]

Ran(op, idx) == [op |-> op, idx |-> idx]

\* the Save button of row idx, with the text of its input box
RanSave(idx, new_text) == [op |-> "comment", idx |-> idx, text |-> new_text]

\* a fresh session: "store_loaded" is not in the session state yet
NewSession ==
    /\ wallets' = load_store(store).wallets
    /\ comments' = load_store(store).comments
    /\ active_idx' = load_store(store).active_idx
    /\ last' = Ran("new_session", 0)
    /\ UNCHANGED store

\* the Load Wallets button
LoadWallets ==
    \E text \in WalletTexts :
        LET ws == parse_wallets(text)
            a == IF active_idx.t = "int" /\ active_idx.v >= Len(ws) THEN PyNone ELSE active_idx
        IN /\ wallets' = ws
           /\ active_idx' = a
           /\ store' = save_store(ws, comments, a)
           /\ last' = Ran("load_wallets", 0)
           /\ UNCHANGED comments

\* the Clear All button
ClearAll ==
    /\ wallets' = <<>>
    /\ comments' = NoComments
    /\ active_idx' = PyNone
    /\ store' = save_store(<<>>, NoComments, PyNone)
    /\ last' = Ran("clear_all", 0)

\* mutant: the selection is kept in the session only
SelectWallet_NoSave ==
    \E idx \in 0..(Len(wallets) - 1) :
        /\ active_idx' = PyInt(idx)
        /\ last' = Ran("select", idx)
        /\ UNCHANGED <<wallets, comments, store>>

\* the label / address button of row idx
SelectWallet ==
    \E idx \in 0..(Len(wallets) - 1) :
        /\ active_idx' = PyInt(idx)
        /\ store' = save_store(wallets, comments, PyInt(idx))
        /\ last' = Ran("select", idx)
        /\ UNCHANGED <<wallets, comments>>

\* the Save button of the comment log of row idx
AddComment ==
    \E idx \in 0..(Len(wallets) - 1), new_text \in CommentInputs :
        LET addr == At(wallets, idx).addr
            c == AppendComment(comments, addr, [ts |-> "ts", text |-> Strip(new_text)])
        IN /\ Logged(comments, DOMAIN comments) < MaxLog
           /\ IF Strip(new_text) # <<>>
              THEN /\ comments' = c
                   /\ store' = save_store(wallets, c, active_idx)
              ELSE UNCHANGED <<comments, store>>
           /\ last' = RanSave(idx, new_text)
           /\ UNCHANGED <<wallets, active_idx>>

\* mutant: the log of the deleted wallet's address is deleted with it
DeleteWallet_DropsLog ==
    \E idx \in 0..(Len(wallets) - 1) :
        LET a == IF active_idx = PyInt(idx) THEN PyNone ELSE active_idx
            ws == Pop(wallets, idx)
            c == [x \in DOMAIN comments \ {At(wallets, idx).addr} |-> comments[x]]
        IN /\ active_idx' = a
           /\ wallets' = ws
           /\ comments' = c
           /\ store' = save_store(ws, c, a)
           /\ last' = Ran("delete", idx)

\* the delete button of row idx
DeleteWallet ==
    \E idx \in 0..(Len(wallets) - 1) :
        LET a == IF active_idx = PyInt(idx) THEN PyNone ELSE active_idx
            ws == Pop(wallets, idx)
        IN /\ active_idx' = a
           /\ wallets' = ws
           /\ store' = save_store(ws, comments, a)
           /\ last' = Ran("delete", idx)
           /\ UNCHANGED comments

\* the Clear Selection button, shown while active_idx designates a wallet
ClearSelection ==
    /\ active_idx.t = "int"
    /\ active_idx.v < Len(wallets)
    /\ active_idx' = PyNone
    /\ store' = save_store(wallets, comments, PyNone)
    /\ last' = Ran("clear_selection", 0)
    /\ UNCHANGED <<wallets, comments>>

BoardInit ==
    /\ store = NoFile
    /\ wallets = <<>>
    /\ comments = NoComments
    /\ active_idx = PyNone
    /\ last = Ran("new_session", 0)


(* ========================== the Overview tab ========================== *)
\* largest number of addresses entered
MaxAddrs == 3

\* the two apps with an Overview tab: the single file and the demo
Apps == {"debank_client", "shadow_nav_demo"}

RECURSIVE AddrListsOfLen(_)
AddrListsOfLen(n) == IF n = 0 THEN {<<>>} ELSE {Append(l, a) : l \in AddrListsOfLen(n - 1), a \in Addrs}

\* addresses: the non-blank lines entered; the apps stop on an empty list
AddressLists == UNION {AddrListsOfLen(n) : n \in 1..MaxAddrs}

\* the errors of _get that are DebankError
DebankErrors == {"DebankError: dns", "DebankError: network", "DebankError: rate_limit", "DebankError: http"}

\* what summarize_wallet(addr) comes back with: its record, or an error of
\* one of its calls, or the AttributeError of total.get; a list payload of
\* id n stands for a list of n elements
SummarizeOutcomes(addr) ==
    {Compose(addr, [total |-> t, chains |-> ListPayload(n), positions |-> ListPayload(n)]) :
        t \in {DictPayload(EmptyDict), DictPayload([k \in {"usd_value"} |-> PyInt(100)]), NullPayload},
        n \in {0, 2}}
    \cup {RetError(e) : e \in {"DebankError: http", "JSONDecodeError"}}

\* the {} that stands in for a summary
EmptySummary == [NoRet EXCEPT !.cls = "empty"]

\* safe_call(...) or {}: every exception is reported and replaced by None
SafeSummary(o) == IF o.cls = "record" THEN o ELSE EmptySummary

\* whether the app's Overview loop catches the error of outcome o
Caught(app, o) == IF app = "debank_client" THEN TRUE ELSE o.err \in DebankErrors

\* len(x or [])
LenOrEmpty(p) == IF p.kind = "list" THEN p.id ELSE 0

\* the row built from a summary dict
RowOf(addr, summary) ==
    [address |-> addr,
     total_usd |-> IF summary.cls = "record" THEN summary.total_usd ELSE PyNone,
     chains |-> IF summary.cls = "record" THEN LenOrEmpty(summary.chains) ELSE 0,
     positions |-> IF summary.cls = "record" THEN LenOrEmpty(summary.positions) ELSE 0]

\* the row of a wallet whose summary failed
FailedRow(addr) == [address |-> addr, total_usd |-> PyNone, chains |-> 0, positions |-> 0]

NoOverview == [app |-> "", addresses |-> <<>>]

\* the Fetch button with a key and at least one address
Fetch ==
    /\ opc \in {"idle", "shown", "crashed"}
    /\ \E app \in Apps, l \in AddressLists : oin' = [app |-> app, addresses |-> l]
    /\ opc' = "loop"
    /\ summaries' = <<>>
    /\ rows' = <<>>

\* one turn of `for addr in addresses`, and st.dataframe after the last one
OverviewStep ==
    /\ opc = "loop"
    /\ LET addr == oin.addresses[Len(summaries) + 1]
           after == IF Len(summaries) + 1 = Len(oin.addresses) THEN "shown" ELSE "loop"
       IN \E o \in SummarizeOutcomes(addr) :
            /\ summaries' = Append(summaries, [addr |-> addr, out |-> o])
            /\ IF o.cls = "record"
               THEN /\ rows' = Append(rows, RowOf(addr, o))
                    /\ opc' = after
               ELSE IF Caught(oin.app, o)
               THEN /\ rows' = Append(rows, IF oin.app = "debank_client" THEN RowOf(addr, SafeSummary(o)) ELSE FailedRow(addr))
                    /\ opc' = after
               ELSE /\ rows' = rows
                    /\ opc' = "crashed"
    /\ UNCHANGED oin

OverviewInit ==
    /\ oin = NoOverview
    /\ opc = "idle"
    /\ summaries = <<>>
    /\ rows = <<>>

Init ==
    /\ ApiInit
    /\ OverviewInit
    /\ BoardInit
    /\ UrlInit
    /\ ctor = NoCtor
    /\ r = NoResponse
    /\ client = NoClient
    /\ pc = "new"
    /\ path = ""
    /\ total = 0
    /\ history = <<>>
    /\ trace = <<>>
    /\ result = NoResult

Next ==
    \/ Construct /\ UNCHANGED <<apiVars, urlVars, boardVars, overviewVars>>
    \/ BeginGet /\ UNCHANGED <<apiVars, urlVars, boardVars, overviewVars>>
    \/ Attempt /\ UNCHANGED <<apiVars, urlVars, boardVars, overviewVars>>
    \/ Discard /\ UNCHANGED <<apiVars, urlVars, boardVars, overviewVars>>

Spec == Init /\ [][Next]_vars

NextApi ==
    \/ CallEndpoint /\ UNCHANGED <<clientVars, urlVars, boardVars, overviewVars>>
    \/ SummarizeBegin /\ UNCHANGED <<clientVars, urlVars, boardVars, overviewVars>>
    \/ SummarizeStep /\ UNCHANGED <<clientVars, urlVars, boardVars, overviewVars>>

SpecApi == Init /\ [][NextApi]_vars

NextUrl == SetBaseUrl /\ UNCHANGED <<clientVars, apiVars, boardVars, overviewVars>>

SpecUrl == Init /\ [][NextUrl]_vars

NextBoard ==
    \/ NewSession /\ UNCHANGED <<clientVars, apiVars, urlVars, overviewVars>>
    \/ LoadWallets /\ UNCHANGED <<clientVars, apiVars, urlVars, overviewVars>>
    \/ ClearAll /\ UNCHANGED <<clientVars, apiVars, urlVars, overviewVars>>
    \/ SelectWallet /\ UNCHANGED <<clientVars, apiVars, urlVars, overviewVars>>
    \/ AddComment /\ UNCHANGED <<clientVars, apiVars, urlVars, overviewVars>>
    \/ DeleteWallet /\ UNCHANGED <<clientVars, apiVars, urlVars, overviewVars>>
    \/ ClearSelection /\ UNCHANGED <<clientVars, apiVars, urlVars, overviewVars>>

SpecBoard == Init /\ [][NextBoard]_vars

NextOverview ==
    \/ Fetch /\ UNCHANGED <<clientVars, apiVars, urlVars, boardVars>>
    \/ OverviewStep /\ UNCHANGED <<clientVars, apiVars, urlVars, boardVars>>

SpecOverview == Init /\ [][NextOverview]_vars

(* ======================= properties of the client ====================== *)
IsAttempt(e) == e.ev = "attempt"
IsSleep(e) == e.ev = "sleep"
IsLookup(e) == e.ev = "dns"

\* the transport attempts, the sleeps and the lookups of the current call
AttemptEvents == SelectSeq(trace, IsAttempt)
Attempts == Len(AttemptEvents)
Sleeps == SelectSeq(trace, IsSleep)
Lookups == SelectSeq(trace, IsLookup)

LastAttempt == AttemptEvents[Attempts]

RateLimitError == Raise("DebankError", "rate_limit")

\* C1 as stated: a 429 on the first transport attempt ends the call at once
\* with the rate-limit error, after exactly 1 attempt and without any sleep.
C1_FirstAttempt429FailsAtOnce ==
    (Attempts >= 1 /\ AttemptEvents[1].v = 429) =>
        /\ pc = "done"
        /\ result = RateLimitError
        /\ Attempts = 1
        /\ Sleeps = <<>>

\* C1 amended: a 429 is retried while retries remain, so after a 429 on the
\* first attempt the call goes on whenever max_retries >= 1; the call fails
\* with the rate-limit error exactly when the response to its last attempt is
\* 429, and then it has made exactly max_retries + 1 attempts.
C1_RateLimitAfterRetries ==
    /\ (Attempts = 1 /\ AttemptEvents[1].v = 429 /\ client.max_retries >= 1) =>
           (pc = "send" /\ result = NoResult)
    /\ (pc = "done" /\ Attempts >= 1 /\ LastAttempt.v = 429) =>
           (result = RateLimitError /\ Attempts = client.max_retries + 1)
    /\ result = RateLimitError => (pc = "done" /\ Attempts >= 1 /\ LastAttempt.v = 429)

C1_Witness ==
    /\ pc = "done"
    /\ result = RateLimitError
    /\ Attempts = 4
    /\ \A i \in 1..Attempts : AttemptEvents[i].v = 429

\* a failed attempt that the Retry policy of the session may repeat
Repeatable(e) == e.v \in {0, 429, 500, 502, 503, 504} \/ (e.v \in {413, 429, 503} /\ e.ra >= 0)

\* C2 as stated: a non-2xx status other than 429 ends the call after that
\* single attempt, with the HTTP-status error carrying status, path and body.
C2_ErrorStatusFailsAtOnce ==
    \A i \in 1..Attempts :
        (AttemptEvents[i].v >= 400 /\ AttemptEvents[i].v # 429) =>
            /\ i = Attempts
            /\ pc = "done"
            /\ result.cls = "DebankError" /\ result.msg = "http"
            /\ result.status = AttemptEvents[i].v

\* C2 amended: a non-2xx status outside 429/500/502/503/504 that carries no
\* Retry-After (413, 503) ends the call with that attempt; 500/502/503/504 are
\* retried while retries remain and end the call only as the response to
\* attempt max_retries + 1. In both cases the call fails with the HTTP-status
\* error carrying the status, the path and the body of the last response
\* (its JSON if it parses, else at most the first 500 characters of its text).
C2_ErrorStatusAfterRetries ==
    /\ \A i \in 1..Attempts :
           (AttemptEvents[i].v >= 400 /\ ~Repeatable(AttemptEvents[i])) => (i = Attempts /\ pc = "done")
    /\ (pc = "done" /\ Attempts >= 1 /\ LastAttempt.v >= 400 /\ LastAttempt.v # 429) =>
           /\ result.cls = "DebankError" /\ result.msg = "http"
           /\ result.status = LastAttempt.v /\ r.status = LastAttempt.v
           /\ result.path = path
           /\ r.body.json # NoJson => result.body = r.body
           /\ r.body.json = NoJson =>
                  /\ result.body.json = NoJson
                  /\ result.body.len <= 500
                  /\ result.body.len <= r.body.len
                  /\ r.body.len <= 500 => result.body.len = r.body.len
           /\ LastAttempt.v \in {500, 502, 503, 504} => Attempts = client.max_retries + 1

C2_Witness ==
    /\ pc = "done"
    /\ Attempts = 3
    /\ client.max_retries = 2
    /\ AttemptEvents[1].v = 500
    /\ LastAttempt.v = 503
    /\ result.msg = "http"
    /\ r.body.len = 501
    /\ result.body.len = 500

AllTransportErrors == \A i \in 1..Attempts : AttemptEvents[i].v = 0

\* C3 as stated: when every attempt fails at transport level the call ends
\* in the network error after exactly max_retries attempts.
C3_AttemptsEqualMaxRetries ==
    (pc = "done" /\ Attempts >= 1 /\ AllTransportErrors) =>
        (result = NetworkError /\ Attempts = client.max_retries)

\* C3 amended: when every attempt fails at transport level the call ends in
\* the network error after exactly max_retries + 1 attempts (the first attempt
\* and max_retries retries); no call ever makes more attempts than that.
C3_AttemptsEqualMaxRetriesPlusOne ==
    /\ (pc = "done" /\ Attempts >= 1 /\ AllTransportErrors) =>
           (result = NetworkError /\ Attempts = client.max_retries + 1)
    /\ (Attempts >= 1 /\ AllTransportErrors /\ Attempts <= client.max_retries) => pc = "send"
    /\ Attempts <= client.max_retries + 1
    /\ result = NetworkError =>
           (pc = "done" /\ Attempts = client.max_retries + 1 /\ LastAttempt.v = 0)

C3_Witness ==
    /\ pc = "done"
    /\ result = NetworkError
    /\ client.max_retries = 3
    /\ Attempts = 4
    /\ AllTransportErrors

\* the payload _get is to return for a parsed body j
Unwrapped(j) == IF j \in {4, 5, 6, 7} THEN DataOf(j) ELSE j

\* C4: after k transport failures, k <= max_retries, the call is still going
\* (none of the failures is surfaced); when attempt k+1 is then answered with
\* a 2xx JSON body the call ends there, returning the normalized payload of
\* that response after exactly k+1 attempts.
C4_SuccessAfterTransientFailures ==
    /\ (Attempts >= 1 /\ AllTransportErrors /\ Attempts <= client.max_retries) =>
           (pc = "send" /\ result = NoResult)
    /\ \A i \in 1..Attempts : AttemptEvents[i].v = 200 => (i = Attempts /\ pc = "done")
    /\ (pc = "done" /\ Attempts >= 1 /\ LastAttempt.v = 200 /\ r.body.json # NoJson
        /\ \A i \in 1..(Attempts - 1) : AttemptEvents[i].v = 0) =>
           /\ r.status = 200
           /\ result = Payload(Unwrapped(r.body.json))
           /\ Attempts <= client.max_retries + 1

C4_Witness ==
    /\ pc = "done"
    /\ Attempts = 4
    /\ \A i \in 1..3 : AttemptEvents[i].v = 0
    /\ LastAttempt.v = 200
    /\ r.body.json = 6
    /\ result = Payload(3)

\* position in the trace of the n-th attempt of the call
AttemptPos(n) == CHOOSE p \in 1..Len(trace) : IsAttempt(trace[p]) /\ Len(SelectSeq(SubSeq(trace, 1, p), IsAttempt)) = n

\* the sleep taken right after the n-th attempt (0 when none is taken)
SleepAfter(n) == LET p == AttemptPos(n) IN IF p < Len(trace) /\ IsSleep(trace[p + 1]) THEN trace[p + 1].v ELSE 0

\* attempts followed by a retry: all but the last, and all while in session.get
RetriedAttempts == IF pc = "send" THEN 1..Attempts ELSE 1..(Attempts - 1)

RECURSIVE SumSleeps(_)
SumSleeps(s) == IF s = <<>> THEN 0 ELSE s[1].v + SumSleeps(Tail(s))

RECURSIVE ExpBackoffSum(_, _)
ExpBackoffSum(b, k) == IF k <= 1 THEN 0 ELSE (IF b * 2^(k - 1) < 1200 THEN b * 2^(k - 1) ELSE 1200) + ExpBackoffSum(b, k - 1)

\* C5 as stated: the sleep after the n-th consecutive transport failure, before
\* attempt n+1, is backoff * n, and nothing is slept after the last attempt.
C5_LinearBackoff ==
    /\ \A n \in RetriedAttempts :
           (\A i \in 1..n : AttemptEvents[i].v = 0) => SleepAfter(n) = client.backoff * n
    /\ (pc = "done" /\ trace # <<>>) => ~IsSleep(trace[Len(trace)])

\* C5 amended: the backoff is exponential. The sleep after the n-th
\* consecutive failed attempt, before attempt n+1, is 0 for n = 1 and
\* min(120 s, backoff * 2^(n-1)) for n >= 2 (a positive Retry-After of a
\* retried response replaces it), so k consecutive transport failures wait
\* the sum of these in all; nothing is slept after the last attempt.
C5_ExponentialBackoff ==
    /\ \A n \in RetriedAttempts :
           SleepAfter(n) = IF AttemptEvents[n].ra > 0 THEN AttemptEvents[n].ra
                           ELSE IF n = 1 THEN 0
                           ELSE IF client.backoff * 2^(n - 1) < 1200 THEN client.backoff * 2^(n - 1)
                           ELSE 1200
    /\ (pc = "send" /\ AllTransportErrors) => SumSleeps(Sleeps) = ExpBackoffSum(client.backoff, Attempts)
    /\ (pc = "done" /\ trace # <<>>) => ~IsSleep(trace[Len(trace)])
    /\ Len(Sleeps) <= client.max_retries

C5_Witness ==
    /\ pc = "send"
    /\ Attempts = 3
    /\ AllTransportErrors
    /\ client.backoff = 8
    /\ Sleeps = <<SleepEvent(16), SleepEvent(32)>>

DnsError == Raise("DebankError", "dns")

\* C6: when the lookup of the base URL host fails the call ends at once in
\* the DNS network error: no transport attempt, no sleep, no retry consumed.
C6_DnsFailureMakesNoAttempt ==
    /\ (Lookups # <<>> /\ Lookups[1].v = 0) =>
           /\ pc = "done"
           /\ result = DnsError
           /\ Attempts = 0
           /\ Sleeps = <<>>
           /\ total = client.max_retries
           /\ history = <<>>
    /\ result = DnsError => trace = <<DnsEvent(FALSE)>>

C6_Witness ==
    /\ pc = "done"
    /\ result = DnsError
    /\ trace = <<DnsEvent(FALSE)>>
    /\ client.max_retries = 3

\* C7 as stated: every transport attempt, the first and each retry, is
\* immediately preceded by its own successful lookup.
C7_LookupBeforeEveryAttempt ==
    \A p \in 1..Len(trace) :
        IsAttempt(trace[p]) => (p > 1 /\ trace[p - 1] = DnsEvent(TRUE))

\* C7 amended: a call makes exactly one lookup, as its first step; the first
\* transport attempt is immediately preceded by that lookup, which succeeded,
\* and no retry is preceded by a lookup of its own.
C7_OneLookupBeforeFirstAttempt ==
    /\ pc \in {"send", "done"} => (Len(Lookups) = 1 /\ IsLookup(trace[1]))
    /\ Attempts >= 1 => (trace[1] = DnsEvent(TRUE) /\ IsAttempt(trace[2]))
    /\ \A p \in 3..Len(trace) : IsAttempt(trace[p]) => ~IsLookup(trace[p - 1])

C7_Witness ==
    /\ Attempts = 3
    /\ Len(Lookups) = 1
    /\ trace[1] = DnsEvent(TRUE)

\* C8: a 2xx response whose JSON is an object with the key "data" yields
\* exactly the value under "data", unwrapped once (null, [] and a nested
\* {"data": ...} included); any other JSON is returned unchanged.
C8_EnvelopeNormalization ==
    (pc = "done" /\ r.status >= 200 /\ r.status < 300 /\ r.body.json # NoJson) =>
        /\ result.cls = "payload"
        /\ r.body.json \in {0, 1, 2, 3} => result.value = r.body.json
        /\ r.body.json = 4 => result.value = 0
        /\ r.body.json = 5 => result.value = 1
        /\ r.body.json = 6 => result.value = 3
        /\ r.body.json = 7 => result.value = 6
        /\ (IsDict(r.body.json) /\ "data" \in JsonKeys(r.body.json)) => result.value = DataOf(r.body.json)

C8_Witness ==
    /\ pc = "done"
    /\ r.status = 200
    /\ r.body.json = 4
    /\ result = Payload(0)

\* C9: every finished call ends in a normalized payload or in exactly one
\* classified error fixed by its trigger (lookup or transport failure: network
\* error; 429: rate-limit error; other non-2xx or unparseable 2xx: HTTP-status
\* error); nothing escapes unclassified, no failure becomes a payload.
C9_EveryOutcomeClassified ==
    pc = "done" =>
        \/ /\ result.cls = "payload"
           /\ r.status >= 200 /\ r.status < 300 /\ r.body.json # NoJson
        \/ /\ result = DnsError
           /\ Lookups[1].v = 0
        \/ /\ result = NetworkError
           /\ LastAttempt.v = 0
        \/ /\ result = RateLimitError
           /\ LastAttempt.v = 429
        \/ /\ result.cls = "DebankError" /\ result.msg = "http"
           /\ \/ (r.status >= 400 /\ r.status # 429)
              \/ (r.status >= 200 /\ r.status < 300 /\ r.body.json = NoJson)

\* C10: a constructor call with no resolvable key (argument None or "", and
\* DEBANK_API_KEY unset or "") raises the configuration error, leaves no
\* client, and has made no lookup and no transport attempt; a client that
\* exists has a non-empty key.
C10_NoKeyNoClient ==
    /\ (ctor.called /\ ctor.api_key \in {NoneVal, ""} /\ ctor.env_key \in {NoneVal, ""}) =>
           /\ result = Raise("ValueError", "missing_key")
           /\ client = NoClient
           /\ pc = "new"
           /\ trace = <<>>
    /\ pc # "new" => client.api_key \notin {NoneVal, ""}

C10_Witness ==
    /\ ctor.called
    /\ ctor.api_key = ""
    /\ ctor.env_key = NoneVal
    /\ result = Raise("ValueError", "missing_key")
    /\ client = NoClient

\* C11: a 2xx response whose body is no JSON makes the call fail with the
\* HTTP-status error, the kind raised for non-2xx statuses, and neither
\* returns a payload nor lets the parser's exception through.
C11_Unparseable2xxIsHttpStatusError ==
    (pc = "done" /\ r.status >= 200 /\ r.status < 300 /\ r.body.json = NoJson) =>
        (result.cls = "DebankError" /\ result.msg = "http")

(* ============ properties of the endpoint methods ======================= *)
InSummarize == ainp.method = "summarize_wallet"

LastCall == calls[Len(calls)]

AllCallsOk == \A i \in 1..Len(calls) : calls[i].ok

\* C12: summarize_wallet issues total-balance, used-chains and
\* aggregated-positions one after another in that order; a failed call is
\* its last call and its error is what summarize_wallet raises, with no
\* record; when all calls succeed exactly three were issued, and a record is
\* only returned after three successful calls.
C12_SummarizeSequentialAllOrNothing ==
    InSummarize =>
        /\ Len(calls) <= 3
        /\ \A i \in 1..Len(calls) :
               /\ calls[i].params = [id |-> ainp.addr]
               /\ calls[i].path = (CASE i = 1 -> "/v1/user/total_balance"
                                     [] i = 2 -> "/v1/user/used_chain_list"
                                     [] i = 3 -> "/v1/user/all_complex_protocol_list")
               /\ i < Len(calls) => calls[i].ok
        /\ (calls # <<>> /\ ~LastCall.ok) => (apc = "done" /\ ret = RetError(LastCall.err))
        /\ (apc = "done" /\ AllCallsOk) => Len(calls) = 3
        /\ (apc # "done" /\ AllCallsOk) => (Len(calls) < 3 /\ ret = NoRet)
        /\ ret.cls = "record" =>
               /\ Len(calls) = 3 /\ AllCallsOk /\ apc = "done"
               /\ ret.address = ainp.addr
               /\ ret.chains = got.chains /\ ret.positions = got.positions

C12_Witness ==
    /\ InSummarize
    /\ apc = "done"
    /\ Len(calls) = 2
    /\ calls[1].ok
    /\ ~calls[2].ok
    /\ ret = RetError("DebankError: rate_limit")

\* C13: the record's total_usd is the payload's usd_value; its net_usd is
\* the payload's net_usd_value whenever that key is present, whatever the
\* value (0 included), and usd_value only when the key is absent.
C13_NetUsdPrefersNetField ==
    (InSummarize /\ ret.cls = "record") =>
        /\ ret.total_usd = DictGet(got.total.d, "usd_value")
        /\ "net_usd_value" \in DOMAIN got.total.d => ret.net_usd = got.total.d["net_usd_value"]
        /\ "net_usd_value" \notin DOMAIN got.total.d => ret.net_usd = DictGet(got.total.d, "usd_value")

\* C14: get_complex_protocol_list issues exactly one _get: to the per-chain
\* route with {id, chain_id} when a chain identifier is given, to the
\* all-chains route with {id} alone when none is given (None or "").
C14_ProtocolListRoute ==
    (ainp.method = "get_complex_protocol_list" /\ apc = "done") =>
        /\ Len(calls) = 1
        /\ ainp.chain_id \notin {NoneVal, ""} =>
               /\ calls[1].path = "/v1/user/complex_protocol_list"
               /\ calls[1].params = [id |-> ainp.addr, chain_id |-> ainp.chain_id]
        /\ ainp.chain_id \in {NoneVal, ""} =>
               /\ calls[1].path = "/v1/user/all_complex_protocol_list"
               /\ calls[1].params = [id |-> ainp.addr]

C14_Witness ==
    /\ ainp.method = "get_complex_protocol_list"
    /\ apc = "done"
    /\ ainp.chain_id = "eth"
    /\ calls[1].path = "/v1/user/complex_protocol_list"
    /\ calls[1].params.chain_id = "eth"

\* C15: get_token_list and get_all_token_list hand _get the parameter is_all
\* as the lowercase string "true" or "false", for both boolean arguments.
C15_BooleanParamLowercase ==
    (ainp.method \in {"get_token_list", "get_all_token_list"} /\ apc = "done") =>
        /\ Len(calls) = 1
        /\ ainp.is_all => calls[1].params.is_all = <<"t", "r", "u", "e">>
        /\ ~ainp.is_all => calls[1].params.is_all = <<"f", "a", "l", "s", "e">>

C15_Witness ==
    /\ ainp.method = "get_all_token_list"
    /\ apc = "done"
    /\ ~ainp.is_all
    /\ calls[1].params.is_all = <<"f", "a", "l", "s", "e">>

\* number of slashes a string ends in
RECURSIVE TrailingSlashes(_)
TrailingSlashes(u) == IF u # <<>> /\ u[Len(u)] = "/" THEN 1 + TrailingSlashes(SubSeq(u, 1, Len(u) - 1)) ELSE 0

\* C16 as stated: exactly one trailing slash is stripped, so a base URL
\* ending in n >= 1 slashes is stored with n-1 of them, and one ending in
\* none is stored unchanged.
C16_StripsExactlyOneSlash ==
    url_in # <<>> =>
        /\ TrailingSlashes(url_in) >= 1 => base_url = SubSeq(url_in, 1, Len(url_in) - 1)
        /\ TrailingSlashes(url_in) = 0 => base_url = url_in

\* C16 amended: every trailing slash is stripped and nothing else changes: a
\* non-empty base URL ending in n >= 0 slashes is stored as its first
\* Len - n characters, so the stored URL never ends in a slash.
C16_StripsAllTrailingSlashes ==
    url_in # <<>> =>
        /\ base_url = SubSeq(url_in, 1, Len(url_in) - TrailingSlashes(url_in))
        /\ TrailingSlashes(base_url) = 0

C16_Witness ==
    /\ url_in = <<"h", "/", "/">>
    /\ base_url = <<"h">>

\* C17: both history methods send start_time exactly when a cursor was
\* supplied, for every integer (0 included) and with the supplied value, and
\* omit it otherwise; id and page_count are always sent.
C17_StartTimeSentWhenSupplied ==
    (ainp.method \in {"get_all_history_list", "get_history_list"} /\ apc = "done") =>
        /\ Len(calls) = 1
        /\ calls[1].params.id = ainp.addr
        /\ calls[1].params.page_count = ainp.page_count
        /\ ("start_time" \in DOMAIN calls[1].params) <=> (ainp.start_time.t = "int")
        /\ ainp.start_time.t = "int" => calls[1].params.start_time = ainp.start_time.v

(* ======================= properties of the board ======================= *)
\* an index that is None or designates a wallet of the list
ValidIdx(a, ws) == a = PyNone \/ (a.t = "int" /\ 0 <= a.v /\ a.v < Len(ws))

\* C18: active_idx is None or a valid index into the current wallet list
\* (0 <= active_idx < number of wallets), in the session state and in the
\* persisted store alike, after any sequence of board actions
C18_ActiveIdxValid ==
    /\ ValidIdx(active_idx, wallets)
    /\ ValidIdx(load_store(store).active_idx, load_store(store).wallets)

\* a delete of row last'.idx taken while active_idx designates a wallet
DeleteOfSelected == last'.op = "delete" /\ active_idx.t = "int" /\ active_idx.v < Len(wallets)

\* C19: a delete of a wallet other than the selected one leaves active_idx
\* designating the wallet (address) that was selected before it, and a
\* delete of the selected wallet clears the selection
C19_DeleteKeepsSelection ==
    [][DeleteOfSelected =>
          IF last'.idx = active_idx.v
          THEN active_idx' = PyNone
          ELSE /\ ValidIdx(active_idx', wallets')
               /\ active_idx' # PyNone
               /\ At(wallets', active_idx'.v).addr = At(wallets, active_idx.v).addr]_vars

\* C20: the persisted store holds exactly the session's wallets, comments
\* and active_idx after every handler, so that a fresh session which loads
\* the store resumes with the same three values
C20_StoreTracksSession ==
    /\ load_store(store) = [wallets |-> wallets, comments |-> comments, active_idx |-> active_idx]
    /\ store.exists => store = save_store(wallets, comments, active_idx)

\* a written store that holds two wallets, a selection and a comment log,
\* left by the delete handler
C20_Witness ==
    /\ store.exists
    /\ last.op = "delete"
    /\ Len(store.wallets) = 2
    /\ store.active_idx = JsonOfIdx(PyInt(1))
    /\ active_idx = PyInt(1)
    /\ store.comments # NoComments

\* the log of addr has grown by exactly one entry at its end
GrownByOne(addr) ==
    /\ addr \in DOMAIN comments'
    /\ Len(comments'[addr]) = Len(LogOf(comments, addr)) + 1
    /\ SubSeq(comments'[addr], 1, Len(LogOf(comments, addr))) = LogOf(comments, addr)

\* every log but that of addr is as it was, and no other key has appeared
OthersKept(addr) ==
    /\ DOMAIN comments' = DOMAIN comments \cup {addr}
    /\ \A a \in DOMAIN comments \ {addr} : comments'[a] = comments[a]

\* C21: a Save with non-blank text appends one entry to the log keyed by the
\* row's address and changes no other log; a Save with blank or
\* whitespace-only text, a select, a delete, Load Wallets, Clear Selection
\* and a fresh session leave every log unchanged; Clear All empties the logs
C21_CommentLogFrame ==
    [][/\ last'.op = "comment" =>
            IF Strip(last'.text) = <<>>
            THEN comments' = comments
            ELSE /\ GrownByOne(At(wallets, last'.idx).addr)
                 /\ OthersKept(At(wallets, last'.idx).addr)
       /\ last'.op \in {"select", "delete", "load_wallets", "clear_selection", "new_session"} =>
            comments' = comments
       /\ last'.op = "clear_all" => comments' = NoComments]_vars

\* a whitespace-only Save has just run while a log is kept for an address
\* whose wallet is no longer in the list
C21_Witness ==
    /\ last.op = "comment"
    /\ last.text = <<" ">>
    /\ "0xa" \in DOMAIN comments
    /\ Len(comments["0xa"]) >= 1
    /\ wallets # <<>>
    /\ \A i \in 1..Len(wallets) : wallets[i].addr # "0xa"

(* ====================== properties of the Overview ===================== *)
\* C22: whatever summaries fail, the loop asks for the summary of every
\* address, and the table shown has one row per address in input order, the
\* row of a failed wallet carrying no total and zero chains and positions
C22_OverviewFailureIsolation ==
    /\ opc # "crashed"
    /\ opc = "shown" =>
         /\ Len(summaries) = Len(oin.addresses)
         /\ Len(rows) = Len(oin.addresses)
         /\ \A i \in 1..Len(rows) :
              /\ rows[i].address = oin.addresses[i]
              /\ summaries[i].addr = oin.addresses[i]
              /\ summaries[i].out.cls = "error" => rows[i] = FailedRow(oin.addresses[i])

====
